---------------------------- MODULE Spec2Model ----------------------------
(***************************************************************************)
(* Current RMS schedule proxy: the GET /api/schedule handler of the four   *)
(* revisions of server.js kept in the repository, the paginated fetcher    *)
(* fetchAllPages, and the normalisers and the date filter they use.        *)
(*                                                                         *)
(*   server.js             Promise.all of two requests, mock fallbacks     *)
(*   unnamed/part_000      fetchAllPages, sequential fetches, HTTP 500     *)
(*   unnamed/part_001:1    one request, date filter in Node, random ticks  *)
(*   unnamed/part_001:203  fetchJobs + fetchBookableResources, HTTP 500    *)
(*                                                                         *)
(* JavaScript values are encoded as strings: a string is itself, and       *)
(* undefined, null, true and false are the marked strings below.  Numbers  *)
(* (ids, epoch seconds) are integers.  An object is a function from its    *)
(* keys; a key outside its DOMAIN reads as undefined.                      *)
(***************************************************************************)
EXTENDS Integers, Sequences, FiniteSets, TLC

VARIABLES
    rev,        \* which revision of server.js is running
    route,      \* "schedule" or "test-current"
    useMock,    \* USE_MOCK_SCHEDULE of part_001:1
    start,      \* req.query.start
    end,        \* req.query.end
    pc,         \* where the handler is
    calls,      \* outbound requests issued so far, in order
    responses,  \* HTTP responses sent to the client, in order
    pending,    \* the unpaged requests in flight: "opp", "mem"
    settled,    \* the replies the handler received, in completion order
    page,       \* fetchAllPages: page
    items,      \* fetchAllPages: items
    fetched,    \* what the finished fetches returned to the handler
    thrown,     \* the errors the handler's catch block received
    remote,     \* the remote API: what it answers to each kind of request
    prev        \* responses of an earlier handling of the same request

vars == <<rev, route, useMock, start, end, pc, calls, responses, pending,
          settled, page, items, fetched, thrown, remote, prev>>

---------------------------------------------------------------------------
(* JavaScript values *)

Undef == "<undefined>"
Null == "<null>"
JsTrue == "<true>"
JsFalse == "<false>"

\* Boolean(v) for the encoded values
Truthy(v) == v \notin {Undef, Null, JsFalse, ""}

\* a || b
Or(a, b) == IF Truthy(a) THEN a ELSE b

\* o.f
Get(o, f) == IF f \in DOMAIN o THEN o[f] ELSE Undef

\* `${n}` for a number n
NumStr(n) == ToString(n)

RECURSIVE SelectSeqIdx(_, _)
SelectSeqIdx(s, keep) ==
    IF s = <<>> THEN <<>>
    ELSE LET rest == SelectSeqIdx(Tail(s), [i \in 1..(Len(s) - 1) |-> keep[i + 1]])
         IN  IF keep[1] THEN <<Head(s)>> \o rest ELSE rest

---------------------------------------------------------------------------
(* Dates.  Epoch seconds are counted from 2024-01-01T00:00:00Z. *)

DaySeconds == 24 * 60 * 60

Days == <<"2024-01-01", "2024-01-02", "2024-01-03">>

Clock == <<"T00:00:00Z", "T10:00:00Z", "T23:59:59Z">>

ClockSeconds == <<0, 10 * 60 * 60, DaySeconds - 1>>

\* getTime() of an Invalid Date
NaN == -1

\* toDate's null
NoDate == -2

\* new Date(val).getTime() / 1000: a date-only string is UTC midnight
DateOf(val) ==
    IF \E d \in 1..Len(Days) : val = Days[d]
    THEN LET d == CHOOSE d \in 1..Len(Days) : val = Days[d]
         IN  (d - 1) * DaySeconds
    ELSE IF \E d \in 1..Len(Days), c \in 1..Len(Clock) : val = Days[d] \o Clock[c]
    THEN LET dc == CHOOSE dc \in (1..Len(Days)) \X (1..Len(Clock)) :
                       val = Days[dc[1]] \o Clock[dc[2]]
         IN  (dc[1] - 1) * DaySeconds + ClockSeconds[dc[2]]
    ELSE NaN

\* a >= b on Dates: false when either is an Invalid Date
DateGeq(a, b) == a # NaN /\ b # NaN /\ a >= b

DateLeq(a, b) == a # NaN /\ b # NaN /\ a <= b

---------------------------------------------------------------------------
(* Normalizer: raw member -> staff name *)

\* [m.first_name, m.last_name].filter(Boolean).join(' ')
JoinNames(m) ==
    LET f == Get(m, "first_name")
        l == Get(m, "last_name")
    IN  IF Truthy(f) /\ Truthy(l) THEN f \o " " \o l
        ELSE IF Truthy(f) THEN f
        ELSE IF Truthy(l) THEN l
        ELSE ""

\* server.js: first+last, name, label
StaffNameServerSwapped(m) ==
    Or(Get(m, "name"), Or(JoinNames(m), "Member #" \o NumStr(m.id)))

StaffNameServer(m) ==
    Or(JoinNames(m), Or(Get(m, "name"), "Member #" \o NumStr(m.id)))

\* part_000: name, full_name, display_name, company_name, label
StaffNamePaged(m) ==
    Or(Get(m, "name"),
       Or(Get(m, "full_name"),
          Or(Get(m, "display_name"),
             Or(Get(m, "company_name"), "Member #" \o NumStr(m.id)))))

\* part_001 fetchBookableResources: name, first+last, label
StaffNameResource(m) ==
    Or(Get(m, "name"), Or(JoinNames(m), "Resource " \o NumStr(m.id)))

StaffOfServer(m) == [id |-> m.id, name |-> StaffNameServer(m)]

StaffOfPaged(m) == [id |-> m.id, name |-> StaffNamePaged(m)]

StaffOfResource(m) == [id |-> m.id, name |-> StaffNameResource(m)]

\* (...).toString().toLowerCase() for the kinds the remote uses
ToLower(s) ==
    CASE s = "Resource" -> "resource"
      [] s = "RESOURCES" -> "resources"
      [] s = "Person" -> "person"
      [] OTHER -> s

\* the filter of fetchBookableResources
IsBookable(m) ==
    LET kind == ToLower(Or(Get(m, "kind"), Or(Get(m, "member_type"), "")))
        bookableFlag == Or(Get(m, "bookable"),
                           Or(Get(m, "is_bookable"), Get(m, "is_resource")))
    IN  Truthy(bookableFlag) \/ kind = "resource" \/ kind = "resources"

---------------------------------------------------------------------------
(* Normalizer: raw opportunity -> job *)

JobName(o) ==
    Or(Get(o, "name"), Or(Get(o, "subject"), "Opportunity #" \o NumStr(o.id)))

\* server.js
JobOfServer(o) ==
    [id |-> o.id,
     name |-> JobName(o),
     starts_at |-> Or(Get(o, "starts_at"), Or(Get(o, "starts_at_date"),
                   Or(Get(o, "start_at"), Or(Get(o, "starts_at_on"), Null)))),
     ends_at |-> Or(Get(o, "ends_at"), Or(Get(o, "ends_at_date"),
                 Or(Get(o, "end_at"), Or(Get(o, "ends_at_on"), Null))))]

\* part_000
JobOfPaged(o) ==
    [id |-> o.id,
     name |-> JobName(o),
     starts_at |-> Or(Get(o, "starts_at"), Or(Get(o, "starts_at_date"),
                                               Get(o, "start_at"))),
     ends_at |-> Or(Get(o, "ends_at"), Or(Get(o, "ends_at_date"),
                                           Get(o, "end_at")))]

\* part_001:1
JobOfFilter(o) ==
    [id |-> o.id,
     name |-> JobName(o),
     starts_at |-> Or(Get(o, "starts_at"), Or(Get(o, "starts_at_date"),
                   Or(Get(o, "start_at"), ""))),
     ends_at |-> Or(Get(o, "ends_at"), Or(Get(o, "ends_at_date"),
                 Or(Get(o, "end_at"), "")))]

\* part_001:203 fetchJobs
JobOfResources(o) ==
    [id |-> o.id,
     name |-> JobName(o),
     starts_at |-> Or(Get(o, "starts_at"), Or(Get(o, "starts_at_date"),
                   Or(Get(o, "start_at"), Null))),
     ends_at |-> Or(Get(o, "ends_at"), Or(Get(o, "ends_at_date"),
                 Or(Get(o, "end_at"), Null)))]

---------------------------------------------------------------------------
(* Date-range filter of part_001:1 *)

\* toDate: null for a falsy or unparseable value
toDate(val) ==
    IF ~Truthy(val) THEN NoDate
    ELSE IF DateOf(val) = NaN THEN NoDate
    ELSE DateOf(val)

\* toDate(a) || toDate(b): a Date object is truthy, null is not
OrDate(a, b) == IF a # NoDate THEN a ELSE b

\* s of the filter callback
OppStart(o) ==
    OrDate(toDate(Get(o, "starts_at")),
           OrDate(toDate(Get(o, "starts_at_date")),
                  OrDate(toDate(Get(o, "start_at")),
                         toDate(Get(o, "start_date")))))

\* the filter callback, with startDate = new Date(start), endDate = new Date(end)
InRange(o, startQ, endQ) ==
    LET s == OppStart(o)
    IN  IF s = NoDate THEN FALSE
        ELSE DateGeq(s, DateOf(startQ)) /\ DateLeq(s, DateOf(endQ))

filteredOpps(opps, startQ, endQ) ==
    SelectSeqIdx(opps, [i \in 1..Len(opps) |-> InRange(opps[i], startQ, endQ)])

\* startIso / endIso of part_000: toISOString throws RangeError on an Invalid Date
IsoRangeThrows(startQ, endQ) ==
    \/ DateOf(startQ \o "T00:00:00Z") = NaN
    \/ DateOf(endQ \o "T23:59:59Z") = NaN

\* err?.response?.data || err.message
ErrorDetails(err) == Or(err.data, err.message)

\* resp.data?.[key] || resp.data?.data || []  (an array, even empty, is truthy)
Collection(data, key) ==
    IF key \in DOMAIN data THEN data[key]
    ELSE IF "data" \in DOMAIN data THEN data["data"]
    ELSE <<>>

\* resp.data?.[collectionKey] || []
PageItems(data, key) == IF key \in DOMAIN data THEN data[key] ELSE <<>>

---------------------------------------------------------------------------
(* Bounds and inputs *)

\* longest /opportunities list of the unpaged remote
MaxOpps == 2

\* longest /members list of the unpaged remote
MaxMembers == 4

\* full pages the paged remote serves per collection in the schedule runs
MaxRemotePages == 1

RevServer == "server.js"
RevPaged == "part_000"
RevFilter == "part_001:1"
RevResources == "part_001:203"

Revs == {RevServer, RevPaged, RevFilter, RevResources}

QueryValues == {Undef, "", "not-a-date", Days[1], Days[3]}

\* the i-th opportunity of the remote
OppAt(i) ==
    CASE i % 3 = 1 -> [id |-> 54 + i, subject |-> "Load-in",
                       starts_at |-> Days[3] \o Clock[2],
                       ends_at |-> Days[3] \o Clock[3]]
      [] i % 3 = 2 -> [id |-> 54 + i, name |-> "Gig", starts_at |-> "TBC",
                       starts_at_date |-> Days[1], end_at |-> Days[3]]
      [] OTHER     -> [id |-> 54 + i, start_date |-> Days[1] \o Clock[1]]

\* the i-th member of the remote
MemberAt(i) ==
    CASE i % 4 = 1 -> [id |-> i, first_name |-> "Alice", last_name |-> "Tech",
                       bookable |-> JsTrue]
      [] i % 4 = 2 -> [id |-> i, name |-> "Bob LX", kind |-> "Resource"]
      [] i % 4 = 3 -> [id |-> i, company_name |-> "Audio Ltd", is_bookable |-> JsFalse,
                       member_type |-> "Person"]
      [] OTHER     -> [id |-> i, full_name |-> "Dana Rig", first_name |-> "Dana",
                       is_resource |-> JsTrue]

OppLists == {[i \in 1..n |-> OppAt(i)] : n \in 0..MaxOpps}

MemberLists == {[i \in 1..n |-> MemberAt(i)] : n \in 0..MaxMembers}

\* what axios rejects with: err.response.data (if the remote answered) and err.message
Errors ==
    {[data |-> Undef, message |-> "connect ECONNREFUSED"],
     [data |-> "Invalid credentials", message |-> "Request failed with status code 401"]}

Ok(data) == [ok |-> TRUE, data |-> data]

Fail(err) == [ok |-> FALSE, err |-> err]

\* answers to GET /opportunities: the list under its key, under "data", or under neither
OppReplies ==
    {Ok([opportunities |-> l]) : l \in OppLists}
        \cup {Ok([data |-> <<OppAt(1)>>]), Ok([meta |-> <<>>])}
        \cup {Fail(e) : e \in Errors}

MemberReplies ==
    {Ok([members |-> l]) : l \in MemberLists}
        \cup {Ok([data |-> <<MemberAt(1)>>]), Ok([meta |-> <<>>])}
        \cup {Fail(e) : e \in Errors}

---------------------------------------------------------------------------
(* Responses *)

Request(path, p) == [path |-> path, page |-> p]

Resp400 ==
    [status |-> 400,
     body |-> [error |-> "start and end query params are required (YYYY-MM-DD)."]]

Resp500(err) ==
    [status |-> 500,
     body |-> [error |-> "Failed to fetch schedule from Current RMS",
               details |-> ErrorDetails(err)]]

Ids(s) == {s[i].id : i \in 1..Len(s)}

\* the last index holding id k: a later assignments[job.id] = ... overwrites an earlier one
LastIdx(s, k) ==
    CHOOSE i \in 1..Len(s) :
        NumStr(s[i].id) = k /\ \A j \in (i + 1)..Len(s) : NumStr(s[j].id) # k

\* assignments[job.id] = [] for every job; object keys are strings
Keys(jobs) == {NumStr(id) : id \in Ids(jobs)}

EmptyAssignmentsSkipFirst(jobs) ==
    [k \in Keys(IF jobs = <<>> THEN jobs ELSE Tail(jobs)) |-> <<>>]

EmptyAssignments(jobs) == [k \in Keys(jobs) |-> <<>>]

\* !start || !end
ParamsMissingStartOnly(s, e) == ~Truthy(s)

ParamsMissing(s, e) == ~Truthy(s) \/ ~Truthy(e)

---------------------------------------------------------------------------
(* server.js: bodies of the fallback-supporting handler *)

MockStaff ==
    <<[id |-> 1, name |-> "Alice Tech"],
      [id |-> 2, name |-> "Bob LX"],
      [id |-> 3, name |-> "Charlie Audio"]>>

\* staff.slice(0, 3).map(s => s.id)
SomeStaffIds(staff) ==
    [i \in 1..(IF Len(staff) < 3 THEN Len(staff) ELSE 3) |-> staff[i].id]

\* step 5: the small mock schedule returned when the range holds no job
EmptyRangeMock(startQ, endQ, staff) ==
    LET mockJobs ==
            <<[id |-> 9001, name |-> "Example Job 1 (mock)",
               starts_at |-> startQ \o " 09:00", ends_at |-> startQ \o " 17:00"],
              [id |-> 9002, name |-> "Example Job 2 (mock)",
               starts_at |-> endQ \o " 10:00", ends_at |-> endQ \o " 18:00"]>>
    IN  [jobs |-> mockJobs,
         staff |-> staff,
         assignments |-> [k \in Keys(mockJobs) |-> SomeStaffIds(staff)],
         source |-> "mock"]

\* steps 1-6 after both requests succeeded
ScheduleServer(startQ, endQ, oppData, memData) ==
    LET opportunities == Collection(oppData, "opportunities")
        members == Collection(memData, "members")
        jobs == [i \in 1..Len(opportunities) |-> JobOfServer(opportunities[i])]
        staff == [i \in 1..Len(members) |-> StaffOfServer(members[i])]
        assignments == EmptyAssignments(jobs)
    IN  [status |-> 200,
         body |-> IF Len(jobs) = 0
                  THEN EmptyRangeMock(startQ, endQ, staff)
                  ELSE [jobs |-> jobs, staff |-> staff,
                        assignments |-> assignments, source |-> "current-rms"]]

\* the catch block: a fully mocked schedule, HTTP 200
FallbackServer(startQ, endQ, err) ==
    [status |-> 200,
     body |-> [jobs |-> <<[id |-> 101, name |-> "Mock Job One (error fallback)",
                           starts_at |-> startQ \o " 09:00",
                           ends_at |-> startQ \o " 18:00"],
                          [id |-> 102, name |-> "Mock Job Two (error fallback)",
                           starts_at |-> endQ \o " 10:00",
                           ends_at |-> endQ \o " 22:00"]>>,
               staff |-> MockStaff,
               assignments |-> ("101" :> <<1, 2>>) @@ ("102" :> <<2, 3>>),
               source |-> "mock-error",
               error |-> ErrorDetails(err)]]

ReplyOf(rem, which) == IF which = "opp" THEN rem.opps ELSE rem.members

KeyOf(which) == IF which = "opp" THEN "opportunities" ELSE "members"

PathOf(which) == IF which = "opp" THEN "/opportunities" ELSE "/members"

\* the log entry of a reply: which request, which page (0: unpaged), whether it
\* succeeded and how many items it carried
Done(which, p, reply, count) ==
    [which |-> which, page |-> p, ok |-> reply.ok, count |-> count,
     err |-> IF reply.ok THEN [data |-> Undef, message |-> ""] ELSE reply.err]

DoneUnpaged(which, rem) ==
    Done(which, 0, ReplyOf(rem, which),
         IF ReplyOf(rem, which).ok
         THEN Len(Collection(ReplyOf(rem, which).data, KeyOf(which)))
         ELSE 0)

FirstRejected(done) ==
    CHOOSE i \in 1..Len(done) : ~done[i].ok /\ \A j \in 1..(i - 1) : done[j].ok

\* a Promise.all that looks at its promises only once both have completed, and
\* then in array order
PromiseAllInArrayOrder(done) ==
    IF Len(done) < 2 THEN [st |-> "pending", by |-> ""]
    ELSE IF \E i \in 1..2 : done[i].which = "opp" /\ ~done[i].ok
    THEN [st |-> "rejected", by |-> "opp"]
    ELSE IF \E i \in 1..2 : ~done[i].ok THEN [st |-> "rejected", by |-> "mem"]
    ELSE [st |-> "fulfilled", by |-> ""]

\* Promise.all([opp, mem]) once the requests of `done` have completed, in that
\* order: rejected with the first rejection, fulfilled when both are fulfilled
PromiseAll(done) ==
    IF \E i \in 1..Len(done) : ~done[i].ok
    THEN [st |-> "rejected", by |-> done[FirstRejected(done)].which]
    ELSE IF Len(done) = 2 THEN [st |-> "fulfilled", by |-> ""]
    ELSE [st |-> "pending", by |-> ""]

---------------------------------------------------------------------------
(* part_001:1: bodies *)

\* USE_MOCK_SCHEDULE branch
MockModeBody(startQ, endQ) ==
    [jobs |-> <<[id |-> 101, name |-> "Job One",
                 starts_at |-> startQ \o " 09:00", ends_at |-> startQ \o " 18:00"],
                [id |-> 102, name |-> "Job Two",
                 starts_at |-> endQ \o " 10:00", ends_at |-> endQ \o " 22:00"],
                [id |-> 103, name |-> "Job Three",
                 starts_at |-> endQ \o " 08:00", ends_at |-> endQ \o " 17:00"]>>,
     staff |-> MockStaff,
     assignments |-> ("101" :> <<1, 2>>) @@ ("102" :> <<2>>) @@ ("103" :> <<1, 3>>)]

ExampleStaff ==
    <<[id |-> 1, name |-> "Example Staff A"],
      [id |-> 2, name |-> "Example Staff B"],
      [id |-> 3, name |-> "Example Staff C"]>>

\* the three Math.random() tests of one job: `ticks` is the set of staff indexes
\* whose test came out true
Assigned(ticks) == SelectSeq(<<1, 2, 3>>, LAMBDA i : i \in ticks)

\* for (const job of jobs) assignments[job.id] = assigned
RandomAssignments(jobs, draw) ==
    [k \in Keys(jobs) |->
        LET as == Assigned(draw[LastIdx(jobs, k)])
        IN  [i \in 1..Len(as) |-> ExampleStaff[as[i]].id]]

ScheduleFilter(startQ, endQ, oppData, draw) ==
    LET opportunities == Collection(oppData, "opportunities")
        kept == filteredOpps(opportunities, startQ, endQ)
        jobs == [i \in 1..Len(kept) |-> JobOfFilter(kept[i])]
    IN  [status |-> 200,
         body |-> [jobs |-> jobs, staff |-> ExampleStaff,
                   assignments |-> RandomAssignments(jobs, draw)]]

\* the number of jobs the random loop runs over
FilterJobCount(startQ, endQ, oppData) ==
    Len(filteredOpps(Collection(oppData, "opportunities"), startQ, endQ))

---------------------------------------------------------------------------
(* part_001:203: bodies *)

\* fetchJobs, after its request succeeded
fetchJobs(oppData) ==
    LET opportunities == Collection(oppData, "opportunities")
    IN  [i \in 1..Len(opportunities) |-> JobOfResources(opportunities[i])]

\* fetchBookableResources, after its request succeeded
fetchBookableResources(memData) ==
    LET members == Collection(memData, "members")
        resources == SelectSeqIdx(members,
                         [i \in 1..Len(members) |-> IsBookable(members[i])])
    IN  [i \in 1..Len(resources) |-> StaffOfResource(resources[i])]

ScheduleResources(jobs, staff) ==
    [status |-> 200,
     body |-> [jobs |-> jobs, staff |-> staff, assignments |-> EmptyAssignments(jobs)]]

---------------------------------------------------------------------------
(* The handlers *)

Respond(r) == responses' = Append(responses, r)

Issue(reqs) == calls' = calls \o reqs

NoFetch == [members |-> <<>>, opps |-> <<>>]

\* the validation every revision starts with
Reject400 ==
    /\ pc = "start"
    /\ route = "schedule"
    /\ ParamsMissing(start, end)
    /\ Respond(Resp400)
    /\ pc' = "done"
    /\ UNCHANGED <<rev, route, useMock, start, end, calls, pending, settled,
                   page, items, fetched, thrown, remote, prev>>

\* server.js: both requests are issued before the handler first awaits
A_Begin ==
    /\ pc = "start"
    /\ rev = RevServer
    /\ route = "schedule"
    /\ ~ParamsMissing(start, end)
    /\ Issue(<<Request("/opportunities", 0), Request("/members", 0)>>)
    /\ pending' = {"opp", "mem"}
    /\ pc' = "await_all"
    /\ UNCHANGED <<rev, route, useMock, start, end, responses, settled,
                   page, items, fetched, thrown, remote, prev>>

\* server.js: one of the two requests completes; when that settles Promise.all the
\* handler resumes in the same turn of the event loop and answers
A_Settle ==
    /\ rev = RevServer
    /\ \E which \in pending :
        LET before == PromiseAll(settled)
            after == PromiseAll(Append(settled, DoneUnpaged(which, remote)))
        IN  /\ pending' = pending \ {which}
            /\ settled' = Append(settled, DoneUnpaged(which, remote))
            /\ IF pc = "await_all" /\ before.st = "pending" /\ after.st = "rejected"
               THEN /\ thrown' = Append(thrown, ReplyOf(remote, after.by).err)
                    /\ Respond(FallbackServer(start, end, ReplyOf(remote, after.by).err))
                    /\ pc' = "done"
               ELSE IF pc = "await_all" /\ before.st = "pending" /\ after.st = "fulfilled"
               THEN /\ Respond(ScheduleServer(start, end, remote.opps.data,
                                              remote.members.data))
                    /\ pc' = "done"
                    /\ UNCHANGED thrown
               ELSE UNCHANGED <<pc, responses, thrown>>
    /\ UNCHANGED <<rev, route, useMock, start, end, calls, page, items, fetched,
                   remote, prev>>

\* part_001:1: mock mode answers at once, real mode issues the one request
C_Begin ==
    /\ pc = "start"
    /\ rev = RevFilter
    /\ route = "schedule"
    /\ ~ParamsMissing(start, end)
    /\ IF useMock
       THEN /\ Respond([status |-> 200, body |-> MockModeBody(start, end)])
            /\ pc' = "done"
            /\ UNCHANGED <<calls, pending>>
       ELSE /\ Issue(<<Request("/opportunities", 0)>>)
            /\ pending' = {"opp"}
            /\ pc' = "await_opps"
            /\ UNCHANGED responses
    /\ UNCHANGED <<rev, route, useMock, start, end, settled, page, items, fetched,
                   thrown, remote, prev>>

\* part_001:1: the request completes; filter, map, random assignments, answer
C_Settle ==
    /\ pc = "await_opps"
    /\ rev = RevFilter
    /\ pending' = {}
    /\ settled' = Append(settled, DoneUnpaged("opp", remote))
    /\ pc' = "done"
    /\ IF remote.opps.ok
       THEN /\ \E draw \in [1..FilterJobCount(start, end, remote.opps.data)
                               -> SUBSET {1, 2, 3}] :
                   Respond(ScheduleFilter(start, end, remote.opps.data, draw))
            /\ UNCHANGED thrown
       ELSE /\ thrown' = Append(thrown, remote.opps.err)
            /\ Respond(Resp500(remote.opps.err))
    /\ UNCHANGED <<rev, route, useMock, start, end, calls, page, items, fetched,
                   remote, prev>>

\* part_001:203: fetchJobs issues its request
D_Begin ==
    /\ pc = "start"
    /\ rev = RevResources
    /\ route = "schedule"
    /\ ~ParamsMissing(start, end)
    /\ Issue(<<Request("/opportunities", 0)>>)
    /\ pending' = {"opp"}
    /\ pc' = "await_jobs"
    /\ UNCHANGED <<rev, route, useMock, start, end, responses, settled, page, items,
                   fetched, thrown, remote, prev>>

\* part_001:203: fetchJobs returns and fetchBookableResources issues its request,
\* or fetchJobs throws into the catch block
D_JobsSettle ==
    /\ pc = "await_jobs"
    /\ rev = RevResources
    /\ settled' = Append(settled, DoneUnpaged("opp", remote))
    /\ IF remote.opps.ok
       THEN /\ fetched' = [fetched EXCEPT !.opps = fetchJobs(remote.opps.data)]
            /\ Issue(<<Request("/members", 0)>>)
            /\ pending' = {"mem"}
            /\ pc' = "await_staff"
            /\ UNCHANGED <<responses, thrown>>
       ELSE /\ thrown' = Append(thrown, remote.opps.err)
            /\ Respond(Resp500(remote.opps.err))
            /\ pending' = {}
            /\ pc' = "done"
            /\ UNCHANGED <<calls, fetched>>
    /\ UNCHANGED <<rev, route, useMock, start, end, page, items, remote, prev>>

\* part_001:203: fetchBookableResources returns or throws; the handler answers
D_StaffSettle ==
    /\ pc = "await_staff"
    /\ rev = RevResources
    /\ pending' = {}
    /\ settled' = Append(settled, DoneUnpaged("mem", remote))
    /\ pc' = "done"
    /\ IF remote.members.ok
       THEN /\ fetched' = [fetched EXCEPT
                              !.members = fetchBookableResources(remote.members.data)]
            /\ Respond(ScheduleResources(fetched.opps,
                                         fetchBookableResources(remote.members.data)))
            /\ UNCHANGED thrown
       ELSE /\ thrown' = Append(thrown, remote.members.err)
            /\ Respond(Resp500(remote.members.err))
            /\ UNCHANGED fetched
    /\ UNCHANGED <<rev, route, useMock, start, end, calls, page, items, remote, prev>>

---------------------------------------------------------------------------
(* part_000: fetchAllPages and its two callers *)

PerPage == 100

MaxPages == 50

\* a page of cnt records following the n records served before it
Filler(cnt, n) == [i \in 1..cnt |-> [id |-> n + i]]

\* what the remote may answer to the request for page p of a collection, n records
\* having been served: a full page (while it has full pages left), a page one
\* short of full, or its last answer
PagedReplies(which, p, n, rem) ==
    (IF p <= rem.maxFull THEN {Ok(KeyOf(which) :> Filler(rem.perPage, n))} ELSE {})
        \cup {Ok(KeyOf(which) :> Filler(PerPage - 1, n))}
        \cup {ReplyOf(rem, which)}

\* one turn of the while loop after the reply r to page p, `its` being items:
\* the await throws, or the loop goes on to page p + 1, or the function returns
FetchAfterPartial(r, key, p, its) ==
    IF ~r.ok THEN [st |-> "return", items |-> its, page |-> p]
    ELSE LET pageItems == PageItems(r.data, key)
         IN  IF Len(pageItems) < PerPage
             THEN [st |-> "return", items |-> its \o pageItems, page |-> p]
             ELSE IF p + 1 <= MaxPages
             THEN [st |-> "next", items |-> its \o pageItems, page |-> p + 1]
             ELSE [st |-> "return", items |-> its \o pageItems, page |-> p + 1]

FetchAfterUntilEmpty(r, key, p, its) ==
    IF ~r.ok THEN [st |-> "throw", items |-> its, page |-> p]
    ELSE LET pageItems == PageItems(r.data, key)
         IN  IF Len(pageItems) = 0
             THEN [st |-> "return", items |-> its \o pageItems, page |-> p]
             ELSE IF p + 1 <= MaxPages
             THEN [st |-> "next", items |-> its \o pageItems, page |-> p + 1]
             ELSE [st |-> "return", items |-> its \o pageItems, page |-> p + 1]

FetchAfterNoCeiling(r, key, p, its) ==
    IF ~r.ok THEN [st |-> "throw", items |-> its, page |-> p]
    ELSE LET pageItems == PageItems(r.data, key)
         IN  IF Len(pageItems) < PerPage
             THEN [st |-> "return", items |-> its \o pageItems, page |-> p]
             ELSE [st |-> "next", items |-> its \o pageItems, page |-> p + 1]

FetchAfter(r, key, p, its) ==
    IF ~r.ok THEN [st |-> "throw", items |-> its, page |-> p]
    ELSE LET pageItems == PageItems(r.data, key)
         IN  IF Len(pageItems) < PerPage
             THEN [st |-> "return", items |-> its \o pageItems, page |-> p]
             ELSE IF p + 1 <= MaxPages
             THEN [st |-> "next", items |-> its \o pageItems, page |-> p + 1]
             ELSE [st |-> "return", items |-> its \o pageItems, page |-> p + 1]

\* res.json({ jobs, staff, assignments }) of the schedule handler
SchedulePaged(members, opportunities) ==
    LET staff == [i \in 1..Len(members) |-> StaffOfPaged(members[i])]
        jobs == [i \in 1..Len(opportunities) |-> JobOfPaged(opportunities[i])]
    IN  [status |-> 200,
         body |-> [jobs |-> jobs, staff |-> staff,
                   assignments |-> EmptyAssignments(jobs)]]

TestOk(members) ==
    [status |-> 200, body |-> [ok |-> JsTrue, members_count |-> Len(members)]]

Test500(err) ==
    [status |-> 500,
     body |-> [ok |-> JsFalse, error |-> "Failed to talk to Current RMS",
               details |-> ErrorDetails(err)]]

\* schedule handler: startIso/endIso are computed outside the try block, then
\* fetchAllPages("/members") issues its first request
B_Begin ==
    /\ pc = "start"
    /\ rev = RevPaged
    /\ route = "schedule"
    /\ ~ParamsMissing(start, end)
    /\ IF IsoRangeThrows(start, end)
       THEN /\ pc' = "crashed"
            /\ UNCHANGED <<calls, page, items>>
       ELSE /\ pc' = "members"
            /\ page' = 1
            /\ items' = <<>>
            /\ Issue(<<Request("/members", 1)>>)
    /\ UNCHANGED <<rev, route, useMock, start, end, responses, pending, settled,
                   fetched, thrown, remote, prev>>

\* /api/test-current: fetchAllPages("/members") issues its first request
T_Begin ==
    /\ pc = "start"
    /\ rev = RevPaged
    /\ route = "test-current"
    /\ pc' = "test_members"
    /\ page' = 1
    /\ items' = <<>>
    /\ Issue(<<Request("/members", 1)>>)
    /\ UNCHANGED <<rev, route, useMock, start, end, responses, pending, settled,
                   fetched, thrown, remote, prev>>

\* the reply to the page request in flight arrives: fetchAllPages asks for the
\* next page, returns to its caller (which goes on to its next step), or throws
\* into the caller's catch block
B_PageReply ==
    /\ pc \in {"members", "opps", "test_members"}
    /\ rev = RevPaged
    /\ LET which == IF pc = "opps" THEN "opp" ELSE "mem"
       IN  \E r \in PagedReplies(which, page, Len(items), remote) :
            LET out == FetchAfter(r, KeyOf(which), page, items)
            IN  /\ settled' = Append(settled,
                        Done(which, page, r,
                             IF r.ok THEN Len(PageItems(r.data, KeyOf(which))) ELSE 0))
                /\ CASE out.st = "throw" ->
                          /\ thrown' = Append(thrown, r.err)
                          /\ Respond(IF route = "schedule" THEN Resp500(r.err)
                                                          ELSE Test500(r.err))
                          /\ pc' = "done"
                          /\ UNCHANGED <<calls, page, items, fetched>>
                     [] out.st = "next" ->
                          /\ page' = out.page
                          /\ items' = out.items
                          /\ Issue(<<Request(PathOf(which), out.page)>>)
                          /\ UNCHANGED <<pc, responses, fetched, thrown>>
                     [] out.st = "return" /\ pc = "members" ->
                          /\ fetched' = [fetched EXCEPT !.members = out.items]
                          /\ pc' = "opps"
                          /\ page' = 1
                          /\ items' = <<>>
                          /\ Issue(<<Request("/opportunities", 1)>>)
                          /\ UNCHANGED <<responses, thrown>>
                     [] out.st = "return" /\ pc = "opps" ->
                          /\ fetched' = [fetched EXCEPT !.opps = out.items]
                          /\ Respond(SchedulePaged(fetched.members, out.items))
                          /\ pc' = "done"
                          /\ page' = out.page
                          /\ items' = out.items
                          /\ UNCHANGED <<calls, thrown>>
                     [] out.st = "return" /\ pc = "test_members" ->
                          /\ fetched' = [fetched EXCEPT !.members = out.items]
                          /\ Respond(TestOk(out.items))
                          /\ pc' = "done"
                          /\ page' = out.page
                          /\ items' = out.items
                          /\ UNCHANGED <<calls, thrown>>
    /\ UNCHANGED <<rev, route, useMock, start, end, pending, remote, prev>>

---------------------------------------------------------------------------
(* Specifications *)

Fresh ==
    /\ pc = "start"
    /\ calls = <<>>
    /\ responses = <<>>
    /\ pending = {}
    /\ settled = <<>>
    /\ page = 0
    /\ items = <<>>
    /\ fetched = NoFetch
    /\ thrown = <<>>
    /\ prev = <<>>

\* any revision, any query, a small remote
Init ==
    /\ Fresh
    /\ rev \in Revs
    /\ route \in (IF rev = RevPaged THEN {"schedule", "test-current"} ELSE {"schedule"})
    /\ useMock \in (IF rev = RevFilter THEN BOOLEAN ELSE {FALSE})
    /\ start \in (IF route = "schedule" THEN QueryValues ELSE {Undef})
    /\ end \in (IF route = "schedule" THEN QueryValues ELSE {Undef})
    /\ remote \in [opps : OppReplies,
                   members : IF rev = RevFilter THEN {Ok([members |-> <<>>])}
                                                ELSE MemberReplies,
                   perPage : IF rev = RevPaged THEN {PerPage, PerPage + 1} ELSE {PerPage},
                   maxFull : {MaxRemotePages}]

Next ==
    \/ Reject400
    \/ A_Begin
    \/ A_Settle
    \/ B_Begin
    \/ T_Begin
    \/ B_PageReply
    \/ C_Begin
    \/ C_Settle
    \/ D_Begin
    \/ D_JobsSettle
    \/ D_StaffSettle

Spec == Init /\ [][Next]_vars

\* fetchAllPages alone (through /api/test-current) against a remote with more
\* full pages than the ceiling allows to fetch
InitPages ==
    /\ Fresh
    /\ rev = RevPaged
    /\ route = "test-current"
    /\ useMock = FALSE
    /\ start = Undef
    /\ end = Undef
    /\ remote \in [opps : {Ok([opportunities |-> <<>>])},
                   members : MemberReplies,
                   perPage : {PerPage, PerPage + 1},
                   maxFull : {MaxPages + 1}]

NextPages == T_Begin \/ B_PageReply

SpecPages == InitPages /\ [][NextPages]_vars

\* the member normalisers on a member record whose name fields are each
\* present, empty or absent
NameFields ==
    {"first_name", "last_name", "name", "full_name", "display_name", "company_name"}

SampleName ==
    [first_name |-> "Alice", last_name |-> "Tech", name |-> "A. Tech",
     full_name |-> "Alice B. Tech", display_name |-> "alice", company_name |-> "Audio Ltd"]

ProbeId == 7 * 1000

MemberOf(c) ==
    [k \in NameFields \cup {"id", "bookable"} |->
        IF k = "id" THEN ProbeId
        ELSE IF k = "bookable" THEN JsTrue
        ELSE IF c[k] = "present" THEN SampleName[k]
        ELSE IF c[k] = "empty" THEN ""
        ELSE Undef]

ProbeMembers == {MemberOf(c) : c \in [NameFields -> {"present", "empty", "absent"}]}

InitStaff ==
    /\ Fresh
    /\ rev \in {RevServer, RevPaged, RevResources}
    /\ route = "schedule"
    /\ useMock = FALSE
    /\ start = Days[1]
    /\ end = Days[3]
    /\ remote \in [opps : {Ok([opportunities |-> <<OppAt(1)>>])},
                   members : {Ok([members |-> <<m>>]) : m \in ProbeMembers},
                   perPage : {PerPage},
                   maxFull : {0}]

NextStaff ==
    \/ A_Begin
    \/ A_Settle
    \/ B_Begin
    \/ B_PageReply
    \/ D_Begin
    \/ D_JobsSettle
    \/ D_StaffSettle

SpecStaff == InitStaff /\ [][NextStaff]_vars

\* the same request handled again by server.js against the same remote answers:
\* only the order in which the two requests complete may differ
Replay ==
    /\ rev = RevServer
    /\ pc = "done"
    /\ pending = {}
    /\ prev = <<>>
    /\ prev' = responses
    /\ pc' = "start"
    /\ calls' = <<>>
    /\ responses' = <<>>
    /\ settled' = <<>>
    /\ thrown' = <<>>
    /\ UNCHANGED <<rev, route, useMock, start, end, pending, page, items, fetched,
                   remote>>

InitOrder ==
    /\ Fresh
    /\ rev = RevServer
    /\ route = "schedule"
    /\ useMock = FALSE
    /\ start \in {Days[1], Days[3]}
    /\ end \in {Days[1], Days[3]}
    /\ remote \in [opps : OppReplies,
                   members : MemberReplies,
                   perPage : {PerPage},
                   maxFull : {MaxRemotePages}]

NextOrder == A_Begin \/ A_Settle \/ Replay

SpecOrder == InitOrder /\ [][NextOrder]_vars

---------------------------------------------------------------------------
(* Properties of fetchAllPages *)

RECURSIVE SumCounts(_)
SumCounts(done) == IF done = <<>> THEN 0 ELSE Head(done).count + SumCounts(Tail(done))

\* the requests for pages 1..n of a collection, in ascending order, each once
PagesUpTo(path, n) == [i \in 1..n |-> Request(path, i)]

\* the j-th reply is a short page that follows j - 1 pages of exactly PerPage items
ShortAfterFull(done, j) ==
    /\ j - 1 < MaxPages
    /\ done[j].ok
    /\ done[j].count < PerPage
    /\ \A i \in 1..(j - 1) : done[i].ok /\ done[i].count = PerPage

AllFull(done) == \A i \in 1..Len(done) : done[i].ok /\ done[i].count >= PerPage

\* C1: when the remote answers N < 50 pages of exactly 100 items and then a page
\* of fewer than 100 (empty or without the collection key included), the fetch
\* is over with that reply: it returns 100 * N + (short page size) records, it
\* asked for pages 1..N+1 once each in ascending order, and for no page after.
C1_ShortPageEndsFetch ==
    \A j \in 1..Len(settled) :
        ShortAfterFull(settled, j) =>
            /\ Len(settled) = j
            /\ pc = "done"
            /\ calls = PagesUpTo("/members", j)
            /\ Len(items) = PerPage * (j - 1) + settled[j].count
            /\ responses = <<TestOk(items)>>

C1_Witness ==
    /\ pc = "done"
    /\ Len(settled) = MaxPages
    /\ ShortAfterFull(settled, MaxPages)
    /\ settled[MaxPages].count > 0
    /\ responses[1].body.members_count = PerPage * (MaxPages - 1) + settled[MaxPages].count

\* C2: a fetch never issues more than 50 page requests and never asks for a page
\* past 50; while every reply is a full page (100 items or more) it goes on page
\* by page, and after the 50th full page it stops and returns what it accumulated.
C2_CeilingEnforced ==
    /\ Len(calls) <= MaxPages
    /\ \A i \in 1..Len(calls) : calls[i].page <= MaxPages
    /\ (pc # "start" /\ AllFull(settled)) =>
          IF Len(settled) < MaxPages
          THEN /\ pc = "test_members"
               /\ calls = PagesUpTo("/members", Len(settled) + 1)
          ELSE /\ Len(settled) = MaxPages
               /\ pc = "done"
               /\ calls = PagesUpTo("/members", MaxPages)
               /\ Len(items) = SumCounts(settled)
               /\ responses = <<TestOk(items)>>

C2_Witness ==
    /\ pc = "done"
    /\ Len(settled) = MaxPages
    /\ AllFull(settled)
    /\ Len(calls) = MaxPages
    /\ responses[1].body.members_count >= PerPage * MaxPages

---------------------------------------------------------------------------
(* Properties of the schedule handler *)

Missing(v) == v = Undef \/ v = ""

IsSchedule(r) == r.status = 200 /\ "jobs" \in DOMAIN r.body

SourceOf(r) == IF "source" \in DOMAIN r.body THEN r.body.source ELSE Undef

Failed(done) == \E i \in 1..Len(done) : ~done[i].ok

RepliesOf(done, which) == SelectSeq(done, LAMBDA d : d.which = which)

\* C3: in every revision a request without start or without end (absent or
\* empty) is answered with HTTP 400 and an error body, and no request to the
\* remote API is issued while it is handled.
C3_MissingParamsRejected ==
    (route = "schedule" /\ (Missing(start) \/ Missing(end))) =>
        /\ calls = <<>>
        /\ pending = {}
        /\ pc \in {"start", "done"}
        /\ pc = "done" =>
              /\ Len(responses) = 1
              /\ responses[1].status = 400
              /\ DOMAIN responses[1].body = {"error"}
              /\ responses[1].body.error # ""

C3_Witness ==
    /\ rev = RevPaged
    /\ route = "schedule"
    /\ start = Days[1]
    /\ Missing(end)
    /\ pc = "done"
    /\ responses[1].status = 400
    /\ calls = <<>>

\* C5: in server.js, once either remote request has failed the request has been
\* answered with HTTP 200, source "mock-error" and the fixed non-empty mock
\* jobs, staff and assignments, never with HTTP 500; source is "current-rms" only
\* when both requests succeeded and returned at least one job, and "mock" only
\* when both succeeded and returned no job.
C5_FallbackOnError ==
    rev = RevServer =>
        /\ \A i \in 1..Len(responses) : responses[i].status # 500
        /\ Failed(settled) =>
              /\ Len(responses) = 1
              /\ responses[1].status = 200
              /\ SourceOf(responses[1]) = "mock-error"
              /\ Ids(responses[1].body.jobs) = {101, 102}
              /\ responses[1].body.staff = MockStaff
              /\ DOMAIN responses[1].body.assignments = {"101", "102"}
        /\ \A i \in 1..Len(responses) :
              /\ SourceOf(responses[i]) = "current-rms" =>
                    /\ pending = {}
                    /\ ~Failed(settled)
                    /\ RepliesOf(settled, "opp")[1].count >= 1
                    /\ Len(responses[i].body.jobs) >= 1
              /\ SourceOf(responses[i]) = "mock" =>
                    /\ pending = {}
                    /\ ~Failed(settled)
                    /\ RepliesOf(settled, "opp")[1].count = 0

C5_Witness ==
    /\ rev = RevServer
    /\ Len(settled) = 2
    /\ settled[1].which = "opp" /\ settled[1].ok
    /\ ~settled[2].ok
    /\ Len(responses) = 1
    /\ responses[1].status = 200
    /\ SourceOf(responses[1]) = "mock-error"

\* the revisions whose live path only initialises assignments
LiveUnfabricated(r) ==
    \/ rev \in {RevPaged, RevResources}
    \/ rev = RevServer /\ SourceOf(r) = "current-rms"

\* C7: in every HTTP 200 schedule response, on every path (live data, the mock
\* for an empty range, the error fallback, mock mode), every job id is a key of
\* assignments; on the live path of the revisions that fabricate nothing the
\* value of every job id is the empty sequence.
C7_EveryJobHasAssignments ==
    \A i \in 1..Len(responses) :
        IsSchedule(responses[i]) =>
            LET b == responses[i].body
            IN  /\ \A j \in 1..Len(b.jobs) : NumStr(b.jobs[j].id) \in DOMAIN b.assignments
                /\ LiveUnfabricated(responses[i]) =>
                      \A j \in 1..Len(b.jobs) : b.assignments[NumStr(b.jobs[j].id)] = <<>>

C7_Witness ==
    /\ rev = RevServer
    /\ Len(responses) = 1
    /\ SourceOf(responses[1]) = "current-rms"
    /\ Len(responses[1].body.jobs) >= 2
    /\ \A j \in 1..Len(responses[1].body.jobs) :
          responses[1].body.assignments[NumStr(responses[1].body.jobs[j].id)] = <<>>

\* what the schedule handler of part_000 has asked for when its n-th reply arrives
CallsUpTo(done, n) ==
    IF done[n].which = "mem"
    THEN PagesUpTo("/members", n)
    ELSE PagesUpTo("/members", n - done[n].page)
             \o PagesUpTo("/opportunities", done[n].page)

\* C8: when the request for page k fails, fetchAllPages fails with that error:
\* page k is not asked for again, no later page and no other request follows,
\* the items of pages 1..k-1 are not returned, and the schedule handler answers
\* HTTP 500 with the error's details instead of a schedule.
C8_PageFailureAborts ==
    (rev = RevPaged /\ route = "schedule") =>
        \A n \in 1..Len(settled) :
            ~settled[n].ok =>
                /\ Len(settled) = n
                /\ pc = "done"
                /\ calls = CallsUpTo(settled, n)
                /\ thrown = <<settled[n].err>>
                /\ Len(responses) = 1
                /\ responses[1].status = 500
                /\ DOMAIN responses[1].body = {"error", "details"}
                /\ responses[1].body.details =
                      (IF settled[n].err.data \in {Undef, ""}
                       THEN settled[n].err.message ELSE settled[n].err.data)

C8_Witness ==
    /\ rev = RevPaged
    /\ route = "schedule"
    /\ Len(settled) >= 3
    /\ ~settled[Len(settled)].ok
    /\ settled[Len(settled)].which = "opp"
    /\ settled[Len(settled)].page = 2
    /\ Len(fetched.members) > 0
    /\ Len(items) = PerPage
    /\ responses[1].status = 500

---------------------------------------------------------------------------
(* Properties of the date-range filter (part_001:1) *)

ValidRange == DateOf(start) # NaN /\ DateOf(end) # NaN

\* start 00:00:00Z
WindowStart == DateOf(start)

\* end 23:59:59Z
WindowEnd == DateOf(end) + DaySeconds - 1

InWindow(t) == t # NaN /\ t # NoDate /\ WindowStart <= t /\ t <= WindowEnd

FilterAnswered ==
    /\ rev = RevFilter
    /\ ~useMock
    /\ pc = "done"
    /\ Len(responses) = 1
    /\ IsSchedule(responses[1])

RemoteOpps == Collection(remote.opps.data, "opportunities")

\* C4: for valid dates start <= end, every job of the response carries a
\* starts_at that is a timestamp within [start 00:00:00Z, end 23:59:59Z], whatever
\* combination of start fields the remote opportunities have.
C4_JobsStartInWindow ==
    (FilterAnswered /\ ValidRange /\ DateOf(start) <= DateOf(end)) =>
        \A j \in 1..Len(responses[1].body.jobs) :
            InWindow(DateOf(responses[1].body.jobs[j].starts_at))

\* C6: the filter keeps exactly the opportunities whose start timestamp lies in
\* the inclusive window from start 00:00:00Z through end 23:59:59Z, so one that
\* starts during the end date is kept; an end before start keeps nothing.
C6_FilterKeepsFullDayWindow ==
    (FilterAnswered /\ ValidRange) =>
        LET due == SelectSeq(RemoteOpps, LAMBDA o : InWindow(OppStart(o)))
        IN  responses[1].body.jobs = [i \in 1..Len(due) |-> JobOfFilter(due[i])]

---------------------------------------------------------------------------
(* Properties of the concurrent requests of server.js *)

WithoutError(b) == [k \in DOMAIN b \ {"error"} |-> b[k]]

FirstFailure(done) ==
    done[CHOOSE i \in 1..Len(done) : ~done[i].ok /\ \A j \in 1..(i - 1) : done[j].ok]

\* C9 as claimed: the response (status and whole body, error field included) is
\* the same for every order in which the two requests complete or fail, and it
\* is assembled only after both have completed.
C9_OrderIrrelevant ==
    /\ (prev # <<>> /\ pc = "done") => responses = prev
    /\ responses # <<>> => pending = {}

\* C9 as amended: status, jobs, staff, assignments and source are the same for
\* every completion order; the error field is the error of the request that
\* failed first; a response built from remote data is assembled only after
\* both requests succeeded, whereas the error fallback is sent at the first
\* failure, whether or not the other request has completed.
C9_FirstFailureDecides ==
    /\ (prev # <<>> /\ pc = "done") =>
          /\ Len(responses) = 1
          /\ Len(prev) = 1
          /\ responses[1].status = prev[1].status
          /\ WithoutError(responses[1].body) = WithoutError(prev[1].body)
    /\ \A i \in 1..Len(responses) :
          SourceOf(responses[i]) \in {"current-rms", "mock"} =>
              pending = {} /\ Len(settled) = 2 /\ ~Failed(settled)
    /\ Failed(settled) =>
          /\ Len(responses) = 1
          /\ SourceOf(responses[1]) = "mock-error"
          /\ responses[1].body.error =
                (IF FirstFailure(settled).err.data \in {Undef, ""}
                 THEN FirstFailure(settled).err.message
                 ELSE FirstFailure(settled).err.data)

C9_Witness ==
    /\ prev # <<>>
    /\ pc = "done"
    /\ pending = {}
    /\ Len(settled) = 2
    /\ ~settled[1].ok /\ ~settled[2].ok
    /\ responses[1].body.error # prev[1].body.error
    /\ WithoutError(responses[1].body) = WithoutError(prev[1].body)

---------------------------------------------------------------------------
(* Properties of the member normalisers *)

NonEmpty(v) == v # Undef /\ v # ""

FirstNonEmpty(cands) ==
    cands[CHOOSE i \in 1..Len(cands) : NonEmpty(cands[i]) /\ \A j \in 1..(i - 1) : ~NonEmpty(cands[j])]

\* first_name and last_name joined with a single space
Joined(m) ==
    IF NonEmpty(m.first_name) /\ NonEmpty(m.last_name)
    THEN m.first_name \o " " \o m.last_name
    ELSE IF NonEmpty(m.first_name) THEN m.first_name
    ELSE IF NonEmpty(m.last_name) THEN m.last_name
    ELSE ""

Label ==
    IF rev = RevResources THEN "Resource " \o ToString(ProbeId)
    ELSE "Member #" \o ToString(ProbeId)

Probe == remote.members.data.members[1]

\* the staff entries the response derived from the probe member
ProbeNames ==
    IF Len(responses) = 1 /\ IsSchedule(responses[1])
    THEN {responses[1].body.staff[k].name :
            k \in {k \in 1..Len(responses[1].body.staff) :
                      responses[1].body.staff[k].id = ProbeId}}
    ELSE {}

\* C10 as claimed: the staff name is the first non-empty of first_name+last_name,
\* name, full_name, display_name, company_name, a label made from the id.
C10_NameOrder ==
    \A n \in ProbeNames :
        n = FirstNonEmpty(<<Joined(Probe), Probe.name, Probe.full_name,
                            Probe.display_name, Probe.company_name, Label>>)

\* C10 as amended: each revision takes the first non-empty of its own list:
\* server.js of first_name+last_name, name, "Member #<id>"; part_000 of name,
\* full_name, display_name, company_name, "Member #<id>"; part_001:203 of name,
\* first_name+last_name, "Resource <id>"; the name is never empty.
C10_NameOrderPerRevision ==
    \A n \in ProbeNames :
        /\ NonEmpty(n)
        /\ n = CASE rev = RevServer ->
                      FirstNonEmpty(<<Joined(Probe), Probe.name, Label>>)
                 [] rev = RevPaged ->
                      FirstNonEmpty(<<Probe.name, Probe.full_name, Probe.display_name,
                                      Probe.company_name, Label>>)
                 [] rev = RevResources ->
                      FirstNonEmpty(<<Probe.name, Joined(Probe), Label>>)

C10_Witness ==
    /\ rev = RevServer
    /\ pc = "done"
    /\ NonEmpty(Probe.first_name)
    /\ NonEmpty(Probe.name)
    /\ ~NonEmpty(Probe.last_name)
    /\ NonEmpty(Probe.company_name)
    /\ ProbeNames = {Probe.first_name}

---------------------------------------------------------------------------
(* Properties of the responses sent per request *)

\* the handler's async function has returned or thrown
HandlerEnded == pc \in {"done", "crashed"}

\* C11: a request to /api/schedule never gets a second response, a handler that
\* has ended has sent exactly one, and after the 400 response nothing else of
\* the handler has run: no remote request was issued and none is in flight.
C11_ExactlyOneResponse ==
    route = "schedule" =>
        /\ Len(responses) <= 1
        /\ HandlerEnded => Len(responses) = 1
        /\ (Len(responses) = 1 /\ responses[1] = Resp400) =>
               (pc = "done" /\ calls = <<>> /\ pending = {})

=============================================================================
